---------------------------- MODULE Spec2Model ----------------------------
(***************************************************************************)
(* tp::ThreadPool (src/src/thread_pool.cpp, src/include/thread_pool/       *)
(* thread_pool.hpp) as a state machine.                                    *)
(*                                                                         *)
(* The state is the Impl object's members (workers_, tasks_, mutex_,       *)
(* stop_), each worker thread's position in worker_loop and its local      *)
(* `task`, and one Task Cell per submit call: the packaged_task's shared   *)
(* state that the returned std::future observes.  Caller operations        *)
(* (construct, submit, get, shutdown, thread_count, pending_tasks,         *)
(* destruction) are actions taken by caller threads.                       *)
(*                                                                         *)
(* In this revision of the source Impl::enqueue and Impl::shutdown have    *)
(* empty bodies ("phase 5", "phase 6") and the constructor has no          *)
(* zero-check; they are modelled as written.                               *)
(***************************************************************************)
EXTENDS Naturals, Integers, Sequences, FiniteSets, TLC

\* ------------------------------------------------------------------ bounds
MaxThreads == 2
MaxTasks == 2
MaxShutdownCalls == 2

\* ------------------------------------------------------------- vocabulary
NoOwner == 0
NoTask == 0

\* The callables the tests submit: [i]{return i*2;}, i the index of the submit
\* call (test lines 41-42), and []() -> int { throw std::runtime_error(...); }
\* (test line 85).
Callables == {"times2", "throws"}

Pending == [kind |-> "pending", val |-> 0, what |-> ""]
Value(v) == [kind |-> "value", val |-> v, what |-> ""]
Exception(e) == [kind |-> "exception", val |-> 0, what |-> e]

\* f(a...): what invoking the callable with its captured argument produces.
Invoke(f, a) ==
    IF f = "times2" THEN Value(a * 2) ELSE Exception("runtime_error")

\* std::packaged_task destroyed before it was invoked, with a future attached:
\* the shared state is made ready with future_error(broken_promise).
BrokenPromise == Exception("future_error:broken_promise")

VARIABLES
    phase,          \* "unconstructed" | "alive" | "destroyed" | "aborted" | "hung"
    num_threads,    \* the argument the constructor was called with
    workers_,       \* std::vector<std::thread>: the worker ids, in spawn order
    pc,             \* pc[w]: worker w's position in worker_loop
    task,           \* task[w]: worker w's local std::function (a cell id, or NoTask)
    tasks_,         \* std::queue<std::function<void()>>: cell ids, front first
    mutex_,         \* owner of mutex_: NoOwner, or a worker id
    stop_,          \* std::atomic<bool> stop_
    cells,          \* one record per submit call, in call order
    shutdownCalls,  \* how many shutdown() calls have returned
    observedCount,  \* what the last thread_count() call returned (-1: none yet)
    observedPending,\* what the last pending_tasks() call returned (-1: none yet)
    max_concurrent  \* the most task bodies ever executing at once, as the tasks of
                    \* test TasksRunConcurrently record it

vars == <<phase, num_threads, workers_, pc, task, tasks_, mutex_, stop_, cells,
          shutdownCalls, observedCount, observedPending, max_concurrent>>

Workers == 1 .. Len(workers_)
Cells == 1 .. Len(cells)

\* ------------------------------------------------------------ Impl methods

\* Impl::Impl's loop: workers_.emplace_back for i = 0 .. num_threads-1.
RECURSIVE SpawnWorkers(_, _)
SpawnWorkers(ws, left) ==
    IF left = 0 THEN ws ELSE SpawnWorkers(Append(ws, Len(ws) + 1), left - 1)

\* A constructor whose loop starts at i = 1: one worker short.
Impl_Impl_OneShort(n) ==
    [workers |-> SpawnWorkers(<<>>, IF n = 0 THEN 0 ELSE n - 1), thrown |-> "none"]

\* Impl::Impl(num_threads): reserve, then the loop; nothing is checked and
\* nothing is thrown, whatever num_threads is.
Impl_Impl(n) ==
    [workers |-> SpawnWorkers(<<>>, n), thrown |-> "none"]

\* Impl::thread_count: workers_.size().
thread_count == Len(workers_)

\* Impl::pending_tasks: tasks_.size() under the mutex.
pending_tasks == Len(tasks_)

\* Impl::enqueue(task): the body is empty; the queue is left as it was, nothing
\* is thrown, and the by-value parameter is destroyed on return.
Impl_enqueue(q, t) ==
    [tasks |-> q, thrown |-> "none"]

\* ThreadPool::enqueue is declared (hpp line 18) and called by submit; it reaches
\* the implementation as the other wrappers do, impl_->enqueue(...).
ThreadPool_enqueue(q, t) == Impl_enqueue(q, t)

\* Impl::shutdown(): the body is empty; stop_ is returned as it was.
Impl_shutdown(s) == s

\* worker_loop's pieces.
\* std::unique_lock lock(mutex_) / std::lock_guard lock(mutex_): the caller
\* proceeds only when no thread owns the mutex.
CanLock_NoExclusion(m) == TRUE
CanLock(m) == m = NoOwner

\* The predicate of cv_.wait: stop_ || !tasks_.empty().
WaitPredicate_NoRecheck(s, q) == TRUE
WaitPredicate(s, q) == s \/ q # <<>>

\* The exit check after the wait: stop_ && tasks_.empty().
ShouldExit_IgnoresQueue(s, q) == s
ShouldExit(s, q) == s /\ q = <<>>

\* task = std::move(tasks_.front()); tasks_.pop();
\* On an empty queue front() and pop() are undefined; what the worker then
\* holds is no submitted runnable (NoTask).
Dequeue_FromBack(q) == [task |-> q[Len(q)], rest |-> SubSeq(q, 1, Len(q) - 1)]
Dequeue(q) ==
    IF q = <<>> THEN [task |-> NoTask, rest |-> <<>>]
    ELSE [task |-> Head(q), rest |-> Tail(q)]

\* The closing brace of the lock's scope, before task(): the mutex is released.
OwnerAfterScope_StillLocked(w) == w
OwnerAfterScope(w) == NoOwner

\* Who still owns cell t's shared_ptr<packaged_task>: a queue entry or a
\* worker's local `task`.
InQueue(q, t) == \E i \in 1 .. Len(q) : q[i] = t
HeldBy(tk, t) == \E w \in DOMAIN tk : tk[w] = t

\* ------------------------------------------------------------------- Init
Init ==
    /\ phase = "unconstructed"
    /\ num_threads = 0
    /\ workers_ = <<>>
    /\ pc = <<>>
    /\ task = <<>>
    /\ tasks_ = <<>>
    /\ mutex_ = NoOwner
    /\ stop_ = FALSE
    /\ cells = <<>>
    /\ shutdownCalls = 0
    /\ observedCount = -1
    /\ observedPending = -1
    /\ max_concurrent = 0

\* ---------------------------------------------------------------- actions

\* ThreadPool::ThreadPool(n) -> Impl::Impl(n): spawns the workers; each starts
\* at the top of worker_loop.
Construct(n) ==
    /\ phase = "unconstructed"
    /\ LET r == Impl_Impl(n)
       IN  /\ phase' = IF r.thrown = "none" THEN "alive" ELSE "unconstructed"
           /\ workers_' = IF r.thrown = "none" THEN r.workers ELSE <<>>
    /\ num_threads' = n
    /\ pc' = [w \in 1 .. Len(workers_') |-> "top"]
    /\ task' = [w \in 1 .. Len(workers_') |-> NoTask]
    /\ UNCHANGED <<tasks_, mutex_, stop_, cells, shutdownCalls,
                   observedCount, observedPending, max_concurrent>>

\* ThreadPool::submit(f, a), a the index of the call: make_shared<packaged_task>, get_future, enqueue the
\* closure owning the shared_ptr, return the future.  When the call returns,
\* the closure passed to enqueue has been destroyed; if no queue entry holds a
\* copy, the packaged_task dies uninvoked and the future gets broken_promise.
Submit(f) ==
    /\ phase = "alive"
    /\ Len(cells) < MaxTasks
    /\ LET t == Len(cells) + 1
           a == Len(cells)
           r == ThreadPool_enqueue(tasks_, t)
       IN  /\ tasks_' = r.tasks
           /\ cells' = Append(cells,
                  [f |-> f, a |-> a,
                   outcome |-> IF InQueue(r.tasks, t) THEN Pending ELSE BrokenPromise,
                   invoked |-> 0,
                   got |-> Pending,
                   submitResult |-> IF r.thrown = "none" THEN "handle" ELSE r.thrown,
                   afterShutdown |-> shutdownCalls > 0])
    /\ UNCHANGED <<phase, num_threads, workers_, pc, task, mutex_, stop_,
                   shutdownCalls, observedCount, observedPending, max_concurrent>>

\* std::future::get(): blocks until the shared state is ready, then returns
\* the value or rethrows the stored exception.
Get(t) ==
    /\ phase = "alive"
    /\ t \in Cells
    /\ cells[t].outcome # Pending
    /\ cells[t].got = Pending
    /\ cells' = [cells EXCEPT ![t].got = cells[t].outcome]
    /\ UNCHANGED <<phase, num_threads, workers_, pc, task, tasks_, mutex_, stop_,
                   shutdownCalls, observedCount, observedPending, max_concurrent>>

\* ThreadPool::shutdown() -> Impl::shutdown().
Shutdown ==
    /\ phase = "alive"
    /\ shutdownCalls < MaxShutdownCalls
    /\ stop_' = Impl_shutdown(stop_)
    /\ shutdownCalls' = shutdownCalls + 1
    /\ UNCHANGED <<phase, num_threads, workers_, pc, task, tasks_, mutex_, cells,
                   observedCount, observedPending, max_concurrent>>

\* ThreadPool::thread_count().
ThreadCount ==
    /\ phase = "alive"
    /\ observedCount' = thread_count
    /\ UNCHANGED <<phase, num_threads, workers_, pc, task, tasks_, mutex_, stop_,
                   cells, shutdownCalls, observedPending, max_concurrent>>

\* ThreadPool::pending_tasks(): lock_guard on mutex_, read, unlock.
PendingTasks ==
    /\ phase = "alive"
    /\ CanLock(mutex_)
    /\ observedPending' = pending_tasks
    /\ UNCHANGED <<phase, num_threads, workers_, pc, task, tasks_, mutex_, stop_,
                   cells, shutdownCalls, observedCount, max_concurrent>>

\* worker_loop, one step of worker w:
\*   "top"     std::unique_lock lock(mutex_)            (also re-locks after a wait)
\*   "locked"  the wait predicate, the exit check, front()/pop(), unlock
\*   "blocked" inside cv_.wait with the mutex released; nothing in the code
\*             notifies cv_, so only a spurious wakeup leaves it
\*   "run"     task()
\*   "done"    returned from worker_loop
\* The steps are one action because the branches after the wait (the exit, the
\* dequeue, "run") are taken only once stop_ is set or tasks_ is non-empty,
\* which the empty enqueue and shutdown bodies never bring about.
WorkerStep(w) ==
    /\ UNCHANGED <<phase, num_threads, workers_, stop_, shutdownCalls,
                   observedCount, observedPending>>
    /\ CASE pc[w] = "top" ->
              /\ CanLock(mutex_)
              /\ mutex_' = w
              /\ pc' = [pc EXCEPT ![w] = "locked"]
              /\ task' = [task EXCEPT ![w] = NoTask]
              /\ UNCHANGED <<tasks_, cells, max_concurrent>>
         [] pc[w] = "locked" ->
              IF ~WaitPredicate(stop_, tasks_)
              THEN /\ pc' = [pc EXCEPT ![w] = "blocked"]
                   /\ mutex_' = NoOwner
                   /\ UNCHANGED <<task, tasks_, cells, max_concurrent>>
              ELSE IF ShouldExit(stop_, tasks_)
              THEN /\ pc' = [pc EXCEPT ![w] = "done"]
                   /\ mutex_' = NoOwner
                   /\ UNCHANGED <<task, tasks_, cells, max_concurrent>>
              ELSE /\ task' = [task EXCEPT ![w] = Dequeue(tasks_).task]
                   /\ tasks_' = Dequeue(tasks_).rest
                   /\ mutex_' = OwnerAfterScope(w)
                   /\ pc' = [pc EXCEPT ![w] = "run"]
                   /\ max_concurrent' =
                          LET running == Cardinality({v \in Workers : pc'[v] = "run"})
                          IN  IF running > max_concurrent THEN running
                              ELSE max_concurrent
                   /\ UNCHANGED cells
         [] pc[w] = "blocked" ->
              /\ pc' = [pc EXCEPT ![w] = "top"]
              /\ UNCHANGED <<task, tasks_, mutex_, cells, max_concurrent>>
         [] pc[w] = "run" ->
              /\ cells' = [cells EXCEPT
                    ![task[w]].invoked = @ + 1,
                    ![task[w]].outcome =
                        IF @ = Pending
                        THEN Invoke(cells[task[w]].f, cells[task[w]].a)
                        ELSE @]
              /\ pc' = [pc EXCEPT ![w] = "top"]
              /\ UNCHANGED <<task, tasks_, mutex_, max_concurrent>>
         [] OTHER -> FALSE

\* ~ThreadPool -> ~Impl: shutdown() (empty), then the members are destroyed
\* with every std::thread still joinable.  With no workers the pool is simply
\* destroyed.  With workers, ~std::thread on a joinable thread calls
\* std::terminate; before that cv_ and mutex_ are destroyed while workers use
\* them, which is undefined: the build may also hang there.
Destroy ==
    /\ phase = "alive"
    /\ stop_' = Impl_shutdown(stop_)
    /\ IF workers_ = <<>>
       THEN phase' = "destroyed"
       ELSE phase' \in {"aborted", "hung"}
    /\ UNCHANGED <<num_threads, workers_, pc, task, tasks_, mutex_, cells,
                   shutdownCalls, observedCount, observedPending, max_concurrent>>

Next ==
    \/ \E n \in 0 .. MaxThreads : Construct(n)
    \/ \E f \in Callables : Submit(f)
    \/ \E t \in Cells : Get(t)
    \/ Shutdown
    \/ ThreadCount
    \/ PendingTasks
    \/ \E w \in Workers : phase = "alive" /\ WorkerStep(w)
    \/ Destroy

Spec == Init /\ [][Next]_vars

\* The scheduler runs every runnable worker thread: a worker whose next step
\* stays possible takes it.  A worker suspended in cv_.wait is not runnable;
\* nothing obliges a spurious wakeup to happen.
FairSpec ==
    Spec /\ \A w \in 1 .. MaxThreads :
                WF_vars(/\ phase = "alive"
                        /\ w \in Workers
                        /\ pc[w] # "blocked"
                        /\ WorkerStep(w))

\* worker_loop on the inputs it is written for.  From Init the queue stays
\* empty and stop_ stays false, so the branches of worker_loop after its wait
\* never run; here a constructed pool starts with k runnables already queued in
\* submission order (cells 1 .. k, each still pending) and with stop_ either
\* way; the workers and the callers' submit, shutdown, thread_count and
\* pending_tasks go on from there.
LoopInit ==
    /\ phase = "alive"
    /\ num_threads \in 1 .. MaxThreads
    /\ workers_ = Impl_Impl(num_threads).workers
    /\ pc = [w \in 1 .. Len(workers_) |-> "top"]
    /\ task = [w \in 1 .. Len(workers_) |-> NoTask]
    /\ \E k \in 0 .. MaxTasks :
         /\ tasks_ = [t \in 1 .. k |-> t]
         /\ \E fs \in [1 .. k -> Callables] :
              cells = [t \in 1 .. k |->
                         [f |-> fs[t], a |-> t - 1, outcome |-> Pending,
                          invoked |-> 0, got |-> Pending,
                          submitResult |-> "handle", afterShutdown |-> FALSE]]
    /\ mutex_ = NoOwner
    /\ stop_ \in BOOLEAN
    /\ shutdownCalls = 0
    /\ observedCount = -1
    /\ observedPending = -1
    /\ max_concurrent = 0

LoopNext ==
    \/ \E f \in Callables : Submit(f)
    \/ Shutdown
    \/ ThreadCount
    \/ PendingTasks
    \/ \E w \in Workers : phase = "alive" /\ WorkerStep(w)

LoopSpec == LoopInit /\ [][LoopNext]_vars

\* ------------------------------------------------------------------ claims

\* What f(a...) yields for cell t, and whether get() on t's handle has returned
\* or raised.
Expected(t) == Invoke(cells[t].f, cells[t].a)
Observed(t) == cells[t].got # Pending
RunnableGone(t) == ~InQueue(tasks_, t) /\ ~HeldBy(task, t)

\* C1: on a pool that has not been shut down, get() on the handle of a
\* submitted callable that does not raise yields exactly f(a...): handle t
\* yields task t's own value, never a failure.
C1_GetYieldsResult ==
    \A t \in Cells :
        (cells[t].f = "times2" /\ ~cells[t].afterShutdown /\ Observed(t))
            => cells[t].got = Expected(t)

\* C2: no accepted task is dropped: a task for which submit returned a handle
\* is in the queue, in a worker's hands, or has been run.
C2_AcceptedTaskNotDropped ==
    \A t \in Cells :
        cells[t].submitResult = "handle"
            => (InQueue(tasks_, t) \/ HeldBy(task, t) \/ cells[t].invoked >= 1)

\* C3: each submitted runnable is invoked exactly once: never more than once
\* while it exists, and exactly once by the time no queue entry and no worker
\* holds it any more.
C3_InvokedExactlyOnce ==
    \A t \in Cells :
        /\ cells[t].invoked <= 1
        /\ (cells[t].submitResult = "handle" /\ RunnableGone(t))
              => cells[t].invoked = 1

\* C4: when the submitted callable raises E, get() on its handle re-raises E,
\* the failure the task raised and not some other failure.
C4_GetRethrowsTaskFailure ==
    \A t \in Cells :
        (cells[t].f = "throws" /\ Observed(t))
            => cells[t].got = Exception("runtime_error")

\* C5: after a raising task has been submitted and its handle observed, no
\* worker has terminated, and every task submitted afterwards whose handle is
\* observed completed successfully with its own result.
C5_PoolWorksAfterException ==
    \A t \in Cells :
        (cells[t].f = "throws" /\ Observed(t))
            => /\ \A w \in Workers : pc[w] # "done"
               /\ \A u \in Cells :
                      (u > t /\ cells[u].f = "times2" /\ Observed(u))
                          => cells[u].got = Expected(u)

\* C6: every submit call made after shutdown() was initiated fails with the
\* PoolStopped error (std::runtime_error) and adds nothing to the queue.
C6_SubmitAfterShutdownFails ==
    \A t \in Cells :
        cells[t].afterShutdown
            => (cells[t].submitResult = "runtime_error" /\ ~InQueue(tasks_, t))

\* C7: construct(0) fails and creates no pool, so every pool that exists has
\* at least one worker.
C7_PoolHasAWorker ==
    phase # "unconstructed" => (num_threads >= 1 /\ Len(workers_) >= 1)

\* C8: for n > 0, construct(n) spawns exactly n workers and thread_count()
\* returns n in every state afterwards, whatever submit, get, pending_tasks,
\* shutdown and worker steps have happened; every thread_count() call made
\* returned n.
C8_ThreadCountIsN ==
    (phase # "unconstructed" /\ num_threads > 0)
        => /\ thread_count = num_threads
           /\ Len(pc) = num_threads
           /\ (observedCount # -1 => observedCount = num_threads)

\* C8 witness: a pool of MaxThreads workers on which a raising task was
\* submitted and observed, shutdown and pending_tasks were called, a worker is
\* inside its wait, and thread_count() returned MaxThreads.
C8_Witness ==
    /\ phase = "alive"
    /\ num_threads = MaxThreads
    /\ observedCount = MaxThreads
    /\ shutdownCalls >= 1
    /\ observedPending # -1
    /\ \E t \in Cells : cells[t].f = "throws" /\ Observed(t)
    /\ \E w \in Workers : pc[w] = "blocked"

\* C9: once a shutdown() call has returned, the queue is empty, every worker
\* has terminated, and every task accepted before the shutdown has been run.
C9_ShutdownDrainsAndJoins ==
    shutdownCalls >= 1
        => /\ tasks_ = <<>>
           /\ \A w \in Workers : pc[w] = "done"
           /\ \A t \in Cells :
                  (~cells[t].afterShutdown /\ cells[t].submitResult = "handle")
                      => cells[t].invoked = 1

\* C10: a second shutdown() call returns (it neither fails nor hangs) and
\* leaves the end state of a single call: stop set, queue empty, every worker
\* terminated.
C10_SecondShutdownSameEndState ==
    shutdownCalls >= 2
        => /\ stop_
           /\ tasks_ = <<>>
           /\ \A w \in Workers : pc[w] = "done"

\* Cell t's runnable was taken out of the queue by a worker; cell t's runnable
\* went into the queue (it was not destroyed by the submit call itself).
Dequeued(t) == HeldBy(task, t) \/ cells[t].invoked >= 1
Pushed(t) == cells[t].outcome # BrokenPromise
Accepted(t) == cells[t].submitResult = "handle"
AllWorkersDone == \A w \in Workers : pc[w] = "done"

\* C11: when destruction of a pool has ended, every worker has terminated and
\* every task accepted before it has completed.
C11_DestructionWaits ==
    phase \in {"destroyed", "aborted"}
        => /\ AllWorkersDone
           /\ \A t \in Cells : Accepted(t) => cells[t].invoked = 1

\* C12: every pending_tasks() call returns the number of runnables submitted
\* and accepted but not yet dequeued by a worker.
C12_PendingCountsUndequeued ==
    [][observedPending' # observedPending
          => observedPending' =
                Cardinality({t \in Cells : Accepted(t) /\ ~Dequeued(t)})]_vars

\* C13: with a submit and a shutdown in either order, once the shutdown has
\* returned the submit has either failed with PoolStopped, enqueueing nothing,
\* or its task has been executed to completion.
C13_SubmitFailsOrRuns ==
    shutdownCalls >= 1
        => \A t \in Cells :
              \/ cells[t].submitResult = "runtime_error" /\ ~InQueue(tasks_, t)
              \/ cells[t].invoked = 1

\* C14: on a pool with at least 2 workers, once at least 2 submitted tasks
\* have all been observed through their handles, at least two task bodies
\* were executing at the same time (max concurrent executions >= 2).
C14_TasksOverlap ==
    (Len(workers_) >= 2 /\ Len(cells) >= 2 /\ \A t \in Cells : Observed(t))
        => max_concurrent >= 2

\* In the code as written no worker is ever Running.
C14_NoTaskEverRuns == \A w \in Workers : pc[w] # "run"

C16_ReadyOnlyAfterRun ==
    \A t \in Cells :
        /\ cells[t].invoked <= 1
        /\ (cells[t].outcome # Pending \/ Observed(t)) => cells[t].invoked = 1

C19_ShutdownTerminatesWorkers ==
    (shutdownCalls >= 1) ~> (phase # "alive" \/ AllWorkersDone)

=============================================================================
